---- MODULE Spec2Model ----
(***************************************************************************)
(* Model of the NetBox reconciliation adapter                              *)
(* (network_importer/adapters/netbox_api/models.py).                       *)
(*                                                                         *)
(* The state is the reconciliation Context (the DSync store of entities),  *)
(* the part of the remote system the adapter reads back, and a record of   *)
(* the last apply operation: what it returned, what it raised and which    *)
(* remote calls it issued, in order.                                       *)
(*                                                                         *)
(* Python values are encoded as follows: None of a string or boolean field *)
(* is the string "None", booleans are "True"/"False", None of an integer   *)
(* field (a remote id) is NoRemoteId, a list of identifiers is a set when  *)
(* only emptiness and membership are read, a dict is a function whose      *)
(* domain is its key set.                                                  *)
(***************************************************************************)
EXTENDS Integers, Sequences, FiniteSets, TLC

\* ------------------------------------------------------------------ values
None == "None"
PyTrue == "True"
PyFalse == "False"
\* Optional[int] remote_id that has not been assigned
NoRemoteId == 0
\* the largest id the remote system hands out in a run
MaxId == 4

EmptyDict == [x \in {} |-> None]

\* Python truthiness of a scalar attribute value
Truthy(v) == v \notin {None, PyFalse, ""}

\* ---------------------------------------------------------------- universe
\* devices d1 and d2 and site s1 are in the Context; d3 and s2 are not
IntfKeys == {<<"d1", "e0">>, <<"d2", "e0">>, <<"d3", "e0">>}
Addresses == {"10.0.0.1", "10.0.0.2"}
VlanKeys == {<<"s1", 10>>, <<"s2", 10>>}
PrefixKeys == {<<"s1", "10.0.0.0/24">>, <<"s2", "10.0.0.0/24">>}
\* a cable is identified by its two (device, interface) ends
CableKeys == {<<<<"d1", "e0">>, <<"d2", "e0">>>>, <<<<"d1", "e0">>, <<"d3", "e0">>>>,
              <<<<"d2", "e0">>, <<"d3", "e0">>>>}

\* the attribute names of an Interface and their values on a new entity
InterfaceAttributes ==
    {"description", "mtu", "is_virtual", "is_lag", "is_lag_member", "parent",
     "mode", "switchport_mode", "allowed_vlans", "access_vlan"}
InterfaceDefaults ==
    [a \in InterfaceAttributes |->
        IF a = "switchport_mode" THEN "NONE"
        ELSE IF a = "allowed_vlans" THEN {} ELSE None]

VARIABLES
    ctxDevice,      \* Context: device name -> [remote_id, primary_ip]
    ctxSite,        \* Context: site name -> [remote_id]
    ctxInterface,   \* Context: (device, name) -> [remote_id, connected_endpoint_type, ips, attrs]
    ctxIP,          \* Context: address -> [remote_id, device_name, interface_name]
    ctxPrefix,      \* Context: (site, prefix) -> [remote_id]
    ctxVlan,        \* Context: (site, vid) -> [remote_id, name]
    ctxCable,       \* Context: (intf a, intf z) -> [remote_id]
    nbInterface,    \* remote system: (device, name) -> [id, connected_endpoint_type]
    nextId,         \* remote system: the id its next create returns
    import_vlans,   \* config.SETTINGS.main.import_vlans
    last,           \* the apply operation that just returned and its outcome
    prevUpdate,     \* the (key, attrs) of the operation before it, when that was
                    \* an Interface update that pushed to the remote; else <<>>
    prevFailed,     \* the (op, key, attrs) of the operation before it, when its
                    \* remote call failed (an Interface update whose get or
                    \* update raised, a Cable create that was rejected); else <<>>
    thr             \* concurrent Cable creates: thread -> [pc, key, ret, raised,
                    \* called, newid, a, z]

vars == <<ctxDevice, ctxSite, ctxInterface, ctxIP, ctxPrefix, ctxVlan, ctxCable,
          nbInterface, nextId, import_vlans, last, prevUpdate, prevFailed, thr>>

\* ------------------------------------------------------------ DSync store
\* dsync.get(type, identifier): the entity, or None when absent
Has(store, id) == id \in DOMAIN store

Put(store, id, obj) == [x \in DOMAIN store \cup {id} |-> IF x = id THEN obj ELSE store[x]]

Remove(store, id) == [x \in DOMAIN store \ {id} |-> store[x]]

\* DSyncModel.get_attrs(): every attribute of the entity, set or not
get_attrs(self) == self.attrs

\* DSyncModel.update(attrs): setattr for each key of attrs, other fields kept
DSyncModelUpdate(self, attrs) ==
    [self EXCEPT !.attrs = [a \in InterfaceAttributes |->
                               IF a \in DOMAIN attrs THEN attrs[a] ELSE self.attrs[a]]]

\* DSyncModel.create(**ids, **attrs): a new entity, no remote id yet
NewInterface(attrs) ==
    [remote_id |-> NoRemoteId,
     connected_endpoint_type |-> None,
     ips |-> {},
     attrs |-> [a \in InterfaceAttributes |->
                  IF a \in DOMAIN attrs THEN attrs[a] ELSE InterfaceDefaults[a]]]

\* ------------------------------------------------------ attribute translator
\* the unique id of a Vlan, the form in which an Interface names its vlans
VlanUid(key) == key[1] \o "__" \o ToString(key[2])

convert_vlan_to_nid(vlan_uid) ==
    IF \E k \in DOMAIN ctxVlan : VlanUid(k) = vlan_uid
    THEN ctxVlan[CHOOSE k \in DOMAIN ctxVlan : VlanUid(k) = vlan_uid].remote_id
    ELSE NoRemoteId

HasKey(attrs, key) == key \in DOMAIN attrs

\* the tests of lines 70 and 72 in the other order
TranslateTypeVirtualFirst(attrs) ==
    IF HasKey(attrs, "is_virtual") /\ Truthy(attrs["is_virtual"]) THEN "virtual"
    ELSE IF HasKey(attrs, "is_lag") /\ Truthy(attrs["is_lag"]) THEN "lag"
    ELSE "other"

TranslateType(attrs) ==
    IF HasKey(attrs, "is_lag") /\ Truthy(attrs["is_lag"]) THEN "lag"
    ELSE IF HasKey(attrs, "is_virtual") /\ Truthy(attrs["is_virtual"]) THEN "virtual"
    ELSE "other"

TranslateMode(attrs) ==
    IF HasKey(attrs, "switchport_mode") /\ attrs["switchport_mode"] = "ACCESS"
    THEN [mode |-> "access"]
    ELSE IF HasKey(attrs, "switchport_mode") /\ attrs["switchport_mode"] = "TRUNK"
    THEN [switchport_mode |-> "tagged"]
    ELSE EmptyDict

ModeIn(attrs, modes) == HasKey(attrs, "mode") /\ attrs["mode"] \in modes

TranslateUntagged(attrs) ==
    IF ModeIn(attrs, {"TRUNK", "ACCESS"}) /\ Truthy(attrs["access_vlan"])
    THEN [untagged_vlan |-> convert_vlan_to_nid(attrs["access_vlan"])]
    ELSE IF ModeIn(attrs, {"TRUNK", "ACCESS"}) /\ ~Truthy(attrs["access_vlan"])
    THEN [untagged_vlan |-> NoRemoteId]
    ELSE EmptyDict

TranslateTagged(attrs) ==
    IF ModeIn(attrs, {"TRUNK", "L3_SUB_VLAN"})
       /\ HasKey(attrs, "allowed_vlans") /\ attrs["allowed_vlans"] # {}
    THEN [tagged_vlans |-> {convert_vlan_to_nid(v) : v \in attrs["allowed_vlans"]}]
    ELSE IF ModeIn(attrs, {"TRUNK", "L3_SUB_VLAN"})
            /\ (~HasKey(attrs, "allowed_vlans") \/ attrs["allowed_vlans"] = {})
    THEN [tagged_vlans |-> {}]
    ELSE EmptyDict

TranslateVlans(attrs) ==
    IF import_vlans # "no"
    THEN TranslateUntagged(attrs) @@ TranslateTagged(attrs)
    ELSE EmptyDict

TranslateLag(attrs) ==
    IF HasKey(attrs, "is_lag_member") /\ Truthy(attrs["is_lag_member"])
    THEN [lag |-> ctxInterface[attrs["parent"]].remote_id]
    ELSE IF HasKey(attrs, "is_lag_member") /\ ~Truthy(attrs["is_lag_member"])
    THEN [lag |-> NoRemoteId]
    ELSE EmptyDict

\* the exception translate_attrs_for_netbox raises, "none" when it returns
TranslateError(key, attrs) ==
    IF ~Has(ctxDevice, key[1]) THEN "AttributeError"
    ELSE IF import_vlans # "no" /\ ModeIn(attrs, {"TRUNK", "ACCESS"})
            /\ ~HasKey(attrs, "access_vlan") THEN "KeyError"
    ELSE IF HasKey(attrs, "is_lag_member") /\ Truthy(attrs["is_lag_member"])
            /\ ~HasKey(attrs, "parent") THEN "KeyError"
    ELSE IF HasKey(attrs, "is_lag_member") /\ Truthy(attrs["is_lag_member"])
            /\ ~Has(ctxInterface, attrs["parent"]) THEN "AttributeError"
    ELSE "none"

translate_attrs_for_netbox(key, attrs) ==
    [device |-> ctxDevice[key[1]].remote_id, name |-> key[2], type |-> TranslateType(attrs)]
    @@ (IF HasKey(attrs, "mtu") THEN [mtu |-> attrs["mtu"]] ELSE EmptyDict)
    @@ (IF HasKey(attrs, "description")
        THEN [description |-> IF Truthy(attrs["description"]) THEN attrs["description"] ELSE ""]
        ELSE EmptyDict)
    @@ TranslateMode(attrs)
    @@ TranslateVlans(attrs)
    @@ TranslateLag(attrs)

\* ------------------------------------------------------------ remote client
\* what a remote get can do: return the object, return None, or raise
GetOutcomes == {"ok", "None", "ConnectionError"}
\* what a remote create/update/delete can do: succeed, be rejected with
\* pynetbox.core.query.RequestError, or raise another error
CallOutcomes == {"ok", "RequestError", "ConnectionError"}

\* one remote call and how it ended
Call(name, outcome) == <<name, outcome>>

NoEntity == EmptyDict

\* the record of one apply operation: the entity it was invoked on (self), what
\* it returned (ret, retval) or raised, the remote calls it issued in order,
\* the parameters of its remote create/update and the id the remote returned
Outcome(op, key, attrs, self, ret, retval, raised, calls, params, newid) ==
    [op |-> op, key |-> key, attrs |-> attrs, self |-> self, ret |-> ret,
     retval |-> retval, raised |-> raised, calls |-> calls, params |-> params,
     newid |-> newid]

\* no operation has returned that the diff engine has not yet taken up
IdleOutcome ==
    Outcome("idle", <<>>, EmptyDict, NoEntity, "none", NoEntity, "none", <<>>, EmptyDict,
            NoRemoteId)

Idle == last.op = "idle"

\* what a remote get followed by a call on its result ends in: the exception
\* raised, "none" when both went through
RemoteError(nbget, nb) ==
    IF nbget = "ConnectionError" THEN nbget
    ELSE IF nbget = "None" THEN "AttributeError"
    ELSE IF nb # "ok" THEN nb
    ELSE "none"

\* the remote calls of a get followed by a call on its result
RemoteCalls(get, nbget, call, nb) ==
    IF nbget = "ok" THEN <<Call(get, nbget), Call(call, nb)>> ELSE <<Call(get, nbget)>>

\* the assignment of the remote id left out
SetRemoteIdForgotten(item, id) == item

\* item.remote_id = <the id of the created remote object>
SetRemoteId(item, id) == [item EXCEPT !.remote_id = id]

\* the candidate attribute sets the diff engine hands to Interface create/update
FullAttrs(mtu) == [InterfaceDefaults EXCEPT !["mtu"] = mtu]
InterfaceAttrSets == {[mtu |-> "9000"], FullAttrs("9000")}

Threads == {1, 2}
NoThread == [pc |-> "none", key |-> <<>>, ret |-> "none", raised |-> "none",
             called |-> FALSE, newid |-> NoRemoteId,
             a |-> [ref |-> "none", obj |-> EmptyDict],
             z |-> [ref |-> "none", obj |-> EmptyDict]]

\* ----------------------------------------------------------------- Init
\* The Context as loaded from the remote system: devices d1 (whose primary IP
\* is 10.0.0.1, carried by d1/e0) and d2, site s1, interface d1/e0 and
\* possibly d2/e0 with its address 10.0.0.2; all three interfaces exist
\* remotely, d3/e0 is never loaded.
InitContext ==
    /\ ctxDevice = [d \in {"d1", "d2"} |->
                      [remote_id |-> IF d = "d1" THEN 1 ELSE 2,
                       primary_ip |-> IF d = "d1" THEN "10.0.0.1" ELSE None]]
    /\ ctxSite = [s \in {"s1"} |-> [remote_id |-> 1]]
    /\ \E loaded \in {{<<"d1", "e0">>}, {<<"d1", "e0">>, <<"d2", "e0">>}} :
         /\ ctxInterface = [k \in loaded |->
                              [NewInterface(FullAttrs("1500")) EXCEPT
                                  !.remote_id = IF k[1] = "d1" THEN 1 ELSE 2,
                                  !.ips = IF k[1] = "d1" THEN {"10.0.0.1"}
                                          ELSE {"10.0.0.2"}]]
         /\ ctxIP = [a \in {"10.0.0.1"} \cup {"10.0.0.2" : k \in loaded \ {<<"d1", "e0">>}} |->
                       [remote_id |-> IF a = "10.0.0.1" THEN 1 ELSE 2,
                        device_name |-> IF a = "10.0.0.1" THEN "d1" ELSE "d2",
                        interface_name |-> "e0"]]
    /\ ctxPrefix = EmptyDict
    /\ ctxVlan = EmptyDict
    /\ ctxCable = EmptyDict
    /\ nbInterface = [k \in IntfKeys |->
                        [id |-> IF k[1] = "d1" THEN 1 ELSE IF k[1] = "d2" THEN 2 ELSE 3,
                         connected_endpoint_type |-> None]]
    /\ nextId = 4
    /\ import_vlans = "config"
    /\ last = IdleOutcome
    /\ prevUpdate = <<>>
    /\ prevFailed = <<>>

Init == InitContext /\ thr = [t \in Threads |-> NoThread]

\* ------------------------------------------------------- NetboxInterface
\* the remote create of line 128 issued before the translation of line 126
InterfaceCreateCallsRemoteFirst(err, nb) == <<Call("dcim.interfaces.create", nb)>>

\* lines 126-128: the remote calls of NetboxInterface.create; the remote
\* create is reached only when the translation has returned
InterfaceCreateCalls(err, nb) ==
    IF err # "none" THEN <<>> ELSE <<Call("dcim.interfaces.create", nb)>>

InterfaceCreate(key, attrs, nb) ==
    /\ Idle
    /\ nb = "ok" => nextId <= MaxId
    /\ LET item == NewInterface(attrs)
           err == TranslateError(key, attrs)
           Done(ret, retval, raised, calls, params, newid) ==
               last' = Outcome("Interface.create", key, attrs, NoEntity, ret, retval,
                               raised, calls, params, newid)
       IN IF err # "none"
          THEN /\ Done("raise", NoEntity, err, InterfaceCreateCalls(err, nb), EmptyDict,
                       NoRemoteId)
               /\ UNCHANGED <<nbInterface, nextId>>
          ELSE LET nb_params == translate_attrs_for_netbox(key, attrs)
                   calls == InterfaceCreateCalls(err, nb) IN
               IF nb # "ok"
               THEN /\ Done("raise", NoEntity, nb, calls, nb_params, NoRemoteId)
                    /\ UNCHANGED <<nbInterface, nextId>>
               ELSE /\ Done("item", SetRemoteId(item, nextId), "none", calls, nb_params,
                            nextId)
                    /\ nbInterface' = Put(nbInterface, key,
                                          [id |-> nextId, connected_endpoint_type |-> None])
                    /\ nextId' = nextId + 1
    /\ UNCHANGED <<ctxDevice, ctxSite, ctxInterface, ctxIP, ctxPrefix, ctxVlan, ctxCable,
                   import_vlans, prevUpdate, prevFailed,
                   thr>>

\* line 149: the candidate equals the recorded attributes
InterfaceUpdateIsNoop(self, attrs) == attrs = get_attrs(self)

\* super().update(attrs) moved before the remote calls of lines 154-155
InterfaceUpdateCommitFirst(self, attrs, raised) == DSyncModelUpdate(self, attrs)

\* lines 154-158: the entity after the remote calls; super().update(attrs) is
\* reached only when neither of them raised
InterfaceUpdateCommit(self, attrs, raised) ==
    IF raised = "none" THEN DSyncModelUpdate(self, attrs) ELSE self

InterfaceUpdate(key, attrs, nbget, nb) ==
    /\ Idle
    /\ Has(ctxInterface, key)
    /\ LET self == ctxInterface[key]
           err == TranslateError(key, attrs)
           Done(ret, retval, raised, calls, params) ==
               last' = Outcome("Interface.update", key, attrs, self, ret, retval,
                               raised, calls, params, NoRemoteId)
       IN IF InterfaceUpdateIsNoop(self, attrs)
          THEN Done("self", self, "none", <<>>, EmptyDict) /\ UNCHANGED ctxInterface
          ELSE IF err # "none"
          THEN Done("raise", NoEntity, err, <<>>, EmptyDict) /\ UNCHANGED ctxInterface
          ELSE LET nb_params == translate_attrs_for_netbox(key, attrs)
                   calls == RemoteCalls("dcim.interfaces.get", nbget, "intf.update", nb)
                   raised == RemoteError(nbget, nb)
                   committed == InterfaceUpdateCommit(self, attrs, raised) IN
               /\ IF raised # "none"
                  THEN Done("raise", NoEntity, raised, calls, nb_params)
                  ELSE Done("self", committed, "none", calls, nb_params)
               /\ ctxInterface' = [ctxInterface EXCEPT ![key] = committed]
    /\ UNCHANGED <<ctxDevice, ctxSite, ctxIP, ctxPrefix, ctxVlan, ctxCable,
                   nbInterface, nextId, import_vlans, prevUpdate, prevFailed,
                   thr>>

\* the membership test of line 169 inverted
InterfaceIsManagementInverted(self, dev) ==
    Truthy(dev.primary_ip) /\ dev.primary_ip \notin self.ips

\* line 169: the interface carries the primary IP of its device
InterfaceIsManagement(self, dev) ==
    Truthy(dev.primary_ip) /\ dev.primary_ip \in self.ips

InterfaceDelete(key, nbget, nb) ==
    /\ Idle
    /\ Has(ctxInterface, key)
    /\ LET self == ctxInterface[key]
           calls == RemoteCalls("dcim.interfaces.get", nbget, "intf.delete", nb)
           raised == RemoteError(nbget, nb)
           Done(ret, retval, exc, issued) ==
               last' = Outcome("Interface.delete", key, EmptyDict, self, ret, retval,
                               exc, issued, EmptyDict, NoRemoteId)
       IN IF self.ips # {} /\ ~Has(ctxDevice, key[1])
          THEN Done("raise", NoEntity, "AttributeError", <<>>) /\ UNCHANGED nbInterface
          ELSE IF self.ips # {} /\ InterfaceIsManagement(self, ctxDevice[key[1]])
          THEN Done("self", self, "none", <<>>) /\ UNCHANGED nbInterface
          ELSE IF raised # "none"
          THEN Done("raise", NoEntity, raised, calls) /\ UNCHANGED nbInterface
          ELSE /\ Done("self", self, "none", calls)
               /\ nbInterface' = Remove(nbInterface, key)
    /\ UNCHANGED <<ctxDevice, ctxSite, ctxInterface, ctxIP, ctxPrefix, ctxVlan, ctxCable,
                   nextId, import_vlans, prevUpdate, prevFailed,
                   thr>>

\* ------------------------------------------------------- NetboxIPAddress
\* the attribute sets handed to IPAddress create
IPAttrSets == {EmptyDict, [device_name |-> "d2", interface_name |-> "e0"]}

NewIPAddress(attrs) ==
    [remote_id |-> NoRemoteId,
     device_name |-> IF HasKey(attrs, "device_name") THEN attrs["device_name"] ELSE None,
     interface_name |-> IF HasKey(attrs, "interface_name") THEN attrs["interface_name"]
                        ELSE None]

\* lines 189-198: the parameters of the remote create
IPCreateParams(address, attrs) ==
    IF HasKey(attrs, "interface_name") /\ HasKey(attrs, "device_name")
       /\ Has(ctxInterface, <<attrs["device_name"], attrs["interface_name"]>>)
    THEN [address |-> address,
          interface |-> ctxInterface[<<attrs["device_name"], attrs["interface_name"]>>].remote_id]
    ELSE [address |-> address]

IPAddressCreate(address, attrs, nb) ==
    /\ Idle
    /\ nb = "ok" => nextId <= MaxId
    /\ LET nb_params == IPCreateParams(address, attrs)
           Done(ret, retval, raised, newid) ==
               last' = Outcome("IPAddress.create", address, attrs, NoEntity, ret, retval,
                               raised, <<Call("ipam.ip_addresses.create", nb)>>, nb_params,
                               newid)
       IN IF nb # "ok"
          THEN Done("raise", NoEntity, nb, NoRemoteId) /\ UNCHANGED nextId
          ELSE /\ Done("item", SetRemoteId(NewIPAddress(attrs), nextId), "none", nextId)
               /\ nextId' = nextId + 1
    /\ UNCHANGED <<ctxDevice, ctxSite, ctxInterface, ctxIP, ctxPrefix, ctxVlan, ctxCable,
                   nbInterface, import_vlans, prevUpdate, prevFailed,
                   thr>>

\* the comparison of line 215 inverted
IPAddressIsManagementInverted(address, dev) == dev.primary_ip # address

\* line 215: the address is the primary IP of its device
IPAddressIsManagement(address, dev) == dev.primary_ip = address

IPAddressDelete(address, nbget, nb) ==
    /\ Idle
    /\ Has(ctxIP, address)
    /\ LET self == ctxIP[address]
           calls == RemoteCalls("ipam.ip_addresses.get", nbget, "ipaddr.delete", nb)
           raised == RemoteError(nbget, nb)
           Done(ret, retval, exc, issued) ==
               last' = Outcome("IPAddress.delete", address, EmptyDict, self, ret, retval,
                               exc, issued, EmptyDict, NoRemoteId)
       IN IF Truthy(self.device_name) /\ ~Has(ctxDevice, self.device_name)
          THEN Done("raise", NoEntity, "AttributeError", <<>>)
          ELSE IF Truthy(self.device_name)
                  /\ IPAddressIsManagement(address, ctxDevice[self.device_name])
          THEN Done("self", self, "none", <<>>)
          ELSE IF raised # "none"
          THEN Done("raise", NoEntity, raised, calls)
          ELSE Done("self", self, "none", calls)
    /\ UNCHANGED <<ctxDevice, ctxSite, ctxInterface, ctxIP, ctxPrefix, ctxVlan, ctxCable,
                   nbInterface, nextId, import_vlans, prevUpdate, prevFailed,
                   thr>>

\* ----------------------------------------------------------- NetboxPrefix
PrefixCreate(key, nb) ==
    /\ Idle
    /\ nb = "ok" => nextId <= MaxId
    /\ LET Done(ret, retval, raised, calls, params, newid) ==
               last' = Outcome("Prefix.create", key, EmptyDict, NoEntity, ret, retval,
                               raised, calls, params, newid)
       IN IF ~Has(ctxSite, key[1])
          THEN /\ Done("raise", NoEntity, "AttributeError", <<>>, EmptyDict, NoRemoteId)
               /\ UNCHANGED nextId
          ELSE LET nb_params == [prefix |-> key[2], site |-> ctxSite[key[1]].remote_id,
                                 status |-> "active"]
                   calls == <<Call("ipam.prefixes.create", nb)>> IN
               IF nb # "ok"
               THEN Done("raise", NoEntity, nb, calls, nb_params, NoRemoteId)
                    /\ UNCHANGED nextId
               ELSE /\ Done("item", SetRemoteId([remote_id |-> NoRemoteId], nextId), "none",
                            calls, nb_params, nextId)
                    /\ nextId' = nextId + 1
    /\ UNCHANGED <<ctxDevice, ctxSite, ctxInterface, ctxIP, ctxPrefix, ctxVlan, ctxCable,
                   nbInterface, import_vlans, prevUpdate, prevFailed,
                   thr>>

\* ------------------------------------------------------------- NetboxVlan
\* the attribute sets handed to Vlan create and update
VlanAttrSets == {EmptyDict, [name |-> None], [name |-> "users"]}

\* line 264 without the test of the value
VlanNameWhenPresent(vid, attrs) ==
    IF HasKey(attrs, "name") THEN attrs["name"] ELSE "vlan-" \o ToString(vid)

\* lines 264-267
VlanName(vid, attrs) ==
    IF HasKey(attrs, "name") /\ Truthy(attrs["name"])
    THEN attrs["name"]
    ELSE "vlan-" \o ToString(vid)

NewVlan(attrs) ==
    [remote_id |-> NoRemoteId,
     name |-> IF HasKey(attrs, "name") THEN attrs["name"] ELSE None]

\* the except clause of line 271 catching every exception
VlanCreateResultCatchAll(nb) == IF nb = "ok" THEN "item" ELSE "False"

\* lines 269-273: what the outcome of the remote create becomes
VlanCreateResult(nb) ==
    IF nb = "ok" THEN "item" ELSE IF nb = "RequestError" THEN "False" ELSE "raise"

VlanCreate(key, attrs, nb) ==
    /\ Idle
    /\ nb = "ok" => nextId <= MaxId
    /\ LET Done(ret, retval, raised, calls, params, newid) ==
               last' = Outcome("Vlan.create", key, attrs, NoEntity, ret, retval,
                               raised, calls, params, newid)
       IN IF ~Has(ctxSite, key[1])
          THEN /\ Done("raise", NoEntity, "AttributeError", <<>>, EmptyDict, NoRemoteId)
               /\ UNCHANGED nextId
          ELSE LET nb_params == [vid |-> key[2], name |-> VlanName(key[2], attrs),
                                 site |-> ctxSite[key[1]].remote_id]
                   calls == <<Call("ipam.vlans.create", nb)>>
                   result == VlanCreateResult(nb) IN
               IF result = "False"
               THEN Done("False", NoEntity, "none", calls, nb_params, NoRemoteId)
                    /\ UNCHANGED nextId
               ELSE IF result = "raise"
               THEN Done("raise", NoEntity, nb, calls, nb_params, NoRemoteId)
                    /\ UNCHANGED nextId
               ELSE /\ Done("item", SetRemoteId(NewVlan(attrs), nextId), "none", calls,
                            nb_params, nextId)
                    /\ nextId' = nextId + 1
    /\ UNCHANGED <<ctxDevice, ctxSite, ctxInterface, ctxIP, ctxPrefix, ctxVlan, ctxCable,
                   nbInterface, import_vlans, prevUpdate, prevFailed,
                   thr>>

\* the recorded attribute set of a Vlan
VlanAttrs(self) == [name |-> self.name]

\* lines 287-290: NetboxVlan.update compares nothing before its remote calls
VlanUpdateIsNoop(self, attrs) == FALSE

VlanUpdate(key, attrs, nbget, nb) ==
    /\ Idle
    /\ Has(ctxVlan, key)
    /\ LET self == ctxVlan[key]
           Done(ret, retval, raised, calls, params) ==
               last' = Outcome("Vlan.update", key, attrs, self, ret, retval,
                               raised, calls, params, NoRemoteId)
       IN IF VlanUpdateIsNoop(self, attrs)
          THEN Done("self", self, "none", <<>>, EmptyDict) /\ UNCHANGED ctxVlan
          ELSE IF nbget # "ok"
          THEN Done("raise", NoEntity, RemoteError(nbget, nb),
                    <<Call("ipam.vlans.get", nbget)>>, EmptyDict)
               /\ UNCHANGED ctxVlan
          ELSE IF ~HasKey(attrs, "name")
          THEN Done("raise", NoEntity, "KeyError", <<Call("ipam.vlans.get", nbget)>>,
                    EmptyDict)
               /\ UNCHANGED ctxVlan
          ELSE LET nb_params == [name |-> attrs["name"]]
                   calls == RemoteCalls("ipam.vlans.get", nbget, "vlan.update", nb) IN
               IF nb # "ok"
               THEN Done("raise", NoEntity, nb, calls, nb_params) /\ UNCHANGED ctxVlan
               ELSE LET updated == [self EXCEPT !.name = attrs["name"]] IN
                    /\ Done("self", updated, "none", calls, nb_params)
                    /\ ctxVlan' = [ctxVlan EXCEPT ![key] = updated]
    /\ UNCHANGED <<ctxDevice, ctxSite, ctxInterface, ctxIP, ctxPrefix, ctxCable,
                   nbInterface, nextId, import_vlans, prevUpdate, prevFailed,
                   thr>>

\* ------------------------------------------------------------ NetboxCable
\* lines 312-320: the endpoints the fallback lookup is made for
CableFallbackKeys(ctx, ka, kz) ==
    IF ~Has(ctx, ka) THEN {ka} ELSE IF ~Has(ctx, kz) THEN {kz} ELSE {}

\* the remote interface as an entity
FetchedInterface(key) ==
    [NewInterface(EmptyDict) EXCEPT
        !.remote_id = nbInterface[key].id,
        !.connected_endpoint_type = nbInterface[key].connected_endpoint_type]

\* dsync.get_intf_from_netbox(device_name, intf_name): the remote interface,
\* added to the Context; nothing when the remote has none
get_intf_from_netbox(ctx, keys) ==
    [k \in DOMAIN ctx \cup {x \in keys : Has(nbInterface, x)} |->
        IF Has(ctx, k) THEN ctx[k] ELSE FetchedInterface(k)]

\* lines 305-320: the Context after both endpoints were looked up
CableResolve(ctx, ka, kz) == get_intf_from_netbox(ctx, CableFallbackKeys(ctx, ka, kz))

\* line 322
CableUnresolved(ctx, ka, kz) == ~Has(ctx, ka) \/ ~Has(ctx, kz)

\* the check of interface_z (lines 334-341) left out
CableAlreadyConnectedOnlyA(interface_a, interface_z) ==
    Truthy(interface_a.connected_endpoint_type)

\* lines 325-341: an endpoint is already connected
CableAlreadyConnected(interface_a, interface_z) ==
    Truthy(interface_a.connected_endpoint_type)
    \/ Truthy(interface_z.connected_endpoint_type)

\* lines 343-352: what the outcome of the remote create becomes
CableCreateResult(nb) ==
    IF nb = "ok" THEN "item" ELSE IF nb = "RequestError" THEN "False" ELSE "raise"

\* line 355 left out: only interface_a is marked
CableMarkOnlyA(ctx, ka, kz) ==
    [k \in DOMAIN ctx |->
        IF k = ka THEN [ctx[k] EXCEPT !.connected_endpoint_type = "dcim.interface"]
        ELSE ctx[k]]

\* lines 354-355
CableMark(ctx, ka, kz) ==
    [k \in DOMAIN ctx |->
        IF k \in {ka, kz} THEN [ctx[k] EXCEPT !.connected_endpoint_type = "dcim.interface"]
        ELSE ctx[k]]

\* lines 354-355 moved before the remote create of lines 343-352
CableCreateEndpointsMarkedFirst(ctx, ka, kz, result) == CableMark(ctx, ka, kz)

\* lines 343-355: the interfaces of the Context after the remote create; the
\* endpoints are marked only when it returned a cable
CableCreateEndpoints(ctx, ka, kz, result) ==
    IF result = "item" THEN CableMark(ctx, ka, kz) ELSE ctx

CableCreateParams(interface_a, interface_z) ==
    [termination_a_type |-> "dcim.interface", termination_b_type |-> "dcim.interface",
     termination_a_id |-> interface_a.remote_id, termination_b_id |-> interface_z.remote_id]

\* what Cable create worked on: the endpoints the Context held when it was
\* called, and the two interfaces as resolved (NoEntity when unresolved)
CableView(ctx0, ctx, ka, kz) ==
    [in_context |-> {k \in {ka, kz} : Has(ctx0, k)},
     interface_a |-> IF Has(ctx, ka) THEN ctx[ka] ELSE NoEntity,
     interface_z |-> IF Has(ctx, kz) THEN ctx[kz] ELSE NoEntity]

CableCreate(key, nb) ==
    /\ Idle
    /\ nb = "ok" => nextId <= MaxId
    /\ LET ka == key[1]
           kz == key[2]
           ctx == CableResolve(ctxInterface, ka, kz)
           lookups == IF CableFallbackKeys(ctxInterface, ka, kz) = {} THEN <<>>
                      ELSE <<Call("get_intf_from_netbox",
                                  IF ctx = ctxInterface THEN "None" ELSE "ok")>>
           Done(ret, retval, raised, calls, params, newid) ==
               last' = Outcome("Cable.create", key, EmptyDict,
                               CableView(ctxInterface, ctx, ka, kz), ret, retval,
                               raised, calls, params, newid)
       IN IF CableUnresolved(ctx, ka, kz)
          THEN /\ Done("False", NoEntity, "none", lookups, EmptyDict, NoRemoteId)
               /\ ctxInterface' = ctx
               /\ UNCHANGED nextId
          ELSE IF CableAlreadyConnected(ctx[ka], ctx[kz])
          THEN /\ Done("False", NoEntity, "none", lookups, EmptyDict, NoRemoteId)
               /\ ctxInterface' = ctx
               /\ UNCHANGED nextId
          ELSE LET nb_params == CableCreateParams(ctx[ka], ctx[kz])
                   calls == lookups \o <<Call("dcim.cables.create", nb)>>
                   result == CableCreateResult(nb) IN
               /\ ctxInterface' = CableCreateEndpoints(ctx, ka, kz, result)
               /\ IF result = "False"
                  THEN /\ Done("False", NoEntity, "none", calls, nb_params, NoRemoteId)
                       /\ UNCHANGED nextId
                  ELSE IF result = "raise"
                  THEN /\ Done("raise", NoEntity, nb, calls, nb_params, NoRemoteId)
                       /\ UNCHANGED nextId
                  ELSE /\ Done("item", SetRemoteId([remote_id |-> NoRemoteId], nextId),
                               "none", calls, nb_params, nextId)
                       /\ nextId' = nextId + 1
    /\ UNCHANGED <<ctxDevice, ctxSite, ctxIP, ctxPrefix, ctxVlan, ctxCable, nbInterface,
                   import_vlans, prevUpdate, prevFailed,
                   thr>>

\* lines 369-371: what NetboxCable.delete returns
CableDeleteReturn(self, cable) == [ret |-> "remote_object", retval |-> cable]

\* a delete that resets connected_endpoint_type of the two endpoints
CableDeleteEndpointsCleared(ctx, ka, kz) ==
    [k \in DOMAIN ctx |->
        IF k \in {ka, kz} THEN [ctx[k] EXCEPT !.connected_endpoint_type = None]
        ELSE ctx[k]]

\* lines 369-371: the interfaces of the Context after NetboxCable.delete,
\* which assigns to neither endpoint
CableDeleteEndpoints(ctx, ka, kz) == ctx

CableDelete(key, nbget, nb) ==
    /\ Idle
    /\ Has(ctxCable, key)
    /\ LET self == ctxCable[key]
           cable == [id |-> self.remote_id, termination_a_type |-> "dcim.interface",
                     termination_b_type |-> "dcim.interface"]
           calls == RemoteCalls("dcim.cables.get", nbget, "cable.delete", nb)
           raised == RemoteError(nbget, nb)
           Done(ret, retval, exc) ==
               last' = Outcome("Cable.delete", key, EmptyDict, self, ret, retval,
                               exc, calls, EmptyDict, NoRemoteId)
       IN IF raised # "none"
          THEN Done("raise", NoEntity, raised)
          ELSE Done(CableDeleteReturn(self, cable).ret, CableDeleteReturn(self, cable).retval,
                    "none")
    /\ ctxInterface' = CableDeleteEndpoints(ctxInterface, key[1], key[2])
    /\ UNCHANGED <<ctxDevice, ctxSite, ctxIP, ctxPrefix, ctxVlan, ctxCable,
                   nbInterface, nextId, import_vlans, prevUpdate, prevFailed,
                   thr>>

\* -------------------------------------------------------------- diff engine
\* dsync.add(obj): the entity is kept under its identity
DSyncAdd(store, id, obj) == IF Has(store, id) THEN store ELSE Put(store, id, obj)

\* a create that returned an entity
Created(op) == last.op = op /\ last.ret = "item"

\* a delete that went through: it returned after its remote delete call
Deleted(op) == last.op = op /\ last.raised = "none" /\ last.calls # <<>>

\* the operation ended on a failed remote call: an Interface update whose
\* remote get or update raised, a Cable create the remote rejected
RemoteCallFailed ==
    \/ last.op = "Interface.update" /\ last.raised # "none" /\ last.calls # <<>>
    \/ last.op = "Cable.create" /\ last.ret = "False"
       /\ \E i \in 1..Len(last.calls) : last.calls[i] = Call("dcim.cables.create", "RequestError")

\* The diff engine takes up what the operation returned: a created entity is
\* added to the Context, a deleted one is removed from it.
EngineReturn ==
    /\ ~Idle
    /\ ctxInterface' =
          IF Created("Interface.create") THEN DSyncAdd(ctxInterface, last.key, last.retval)
          ELSE IF Deleted("Interface.delete") THEN Remove(ctxInterface, last.key)
          ELSE ctxInterface
    /\ ctxIP' =
          IF Created("IPAddress.create") THEN DSyncAdd(ctxIP, last.key, last.retval)
          ELSE IF Deleted("IPAddress.delete") THEN Remove(ctxIP, last.key)
          ELSE ctxIP
    /\ ctxPrefix' =
          IF Created("Prefix.create") THEN DSyncAdd(ctxPrefix, last.key, last.retval)
          ELSE ctxPrefix
    /\ ctxVlan' =
          IF Created("Vlan.create") THEN DSyncAdd(ctxVlan, last.key, last.retval)
          ELSE ctxVlan
    /\ ctxCable' =
          IF Created("Cable.create") THEN DSyncAdd(ctxCable, last.key, last.retval)
          ELSE IF Deleted("Cable.delete") THEN Remove(ctxCable, last.key)
          ELSE ctxCable
    /\ prevUpdate' =
          IF last.op = "Interface.update" /\ last.raised = "none" /\ last.calls # <<>>
          THEN <<last.key, last.attrs>>
          ELSE <<>>
    /\ prevFailed' =
          IF RemoteCallFailed THEN <<last.op, last.key, last.attrs>> ELSE <<>>
    /\ last' = IdleOutcome
    /\ UNCHANGED <<ctxDevice, ctxSite, nbInterface, nextId, import_vlans, thr>>

Next ==
    \/ \E key \in IntfKeys, attrs \in InterfaceAttrSets, nb \in CallOutcomes :
         InterfaceCreate(key, attrs, nb)
    \/ \E key \in IntfKeys, attrs \in InterfaceAttrSets, nbget \in GetOutcomes,
          nb \in CallOutcomes :
         InterfaceUpdate(key, attrs, nbget, nb)
    \/ \E key \in IntfKeys, nbget \in GetOutcomes, nb \in CallOutcomes :
         InterfaceDelete(key, nbget, nb)
    \/ \E address \in Addresses, attrs \in IPAttrSets, nb \in CallOutcomes :
         IPAddressCreate(address, attrs, nb)
    \/ \E address \in Addresses, nbget \in GetOutcomes, nb \in CallOutcomes :
         IPAddressDelete(address, nbget, nb)
    \/ \E key \in PrefixKeys, nb \in CallOutcomes :
         PrefixCreate(key, nb)
    \/ \E key \in VlanKeys, attrs \in VlanAttrSets, nb \in CallOutcomes :
         VlanCreate(key, attrs, nb)
    \/ \E key \in VlanKeys, attrs \in VlanAttrSets, nbget \in GetOutcomes,
          nb \in CallOutcomes :
         VlanUpdate(key, attrs, nbget, nb)
    \/ \E key \in CableKeys, nb \in CallOutcomes :
         CableCreate(key, nb)
    \/ \E key \in CableKeys, nbget \in GetOutcomes, nb \in CallOutcomes :
         CableDelete(key, nbget, nb)
    \/ EngineReturn

\* one reconciliation run: the diff engine applies its operations one at a time
Spec == Init /\ [][Next]_vars

\* ------------------------------------------- the translations on wide inputs
\* a second set of runs in which Interface create and Vlan create are called
\* with every combination of the attributes the translations read
TypeAttrSets ==
    {a @@ b : a \in {EmptyDict, [is_lag |-> PyTrue], [is_lag |-> PyFalse]},
              b \in {EmptyDict, [is_virtual |-> PyTrue], [is_virtual |-> PyFalse]}}

VlanModeAttrSets ==
    {a @@ b @@ c : a \in {EmptyDict, [switchport_mode |-> "ACCESS"]},
                   b \in {EmptyDict, [mode |-> "ACCESS"]},
                   c \in {EmptyDict, [access_vlan |-> None],
                          [access_vlan |-> VlanUid(<<"s1", 10>>)]}}

TranslateAttrSets == TypeAttrSets \cup VlanModeAttrSets

WideVlanKeys == {<<site, vid>> : site \in {"s1", "s2"}, vid \in {1, 10, 20}}

WideVlanAttrSets == VlanAttrSets \cup {[name |-> ""]}

NextTranslate ==
    \/ \E key \in WideVlanKeys, attrs \in WideVlanAttrSets, nb \in CallOutcomes :
          VlanCreate(key, attrs, nb)
    \/ \E key \in IntfKeys, attrs \in TranslateAttrSets, nb \in CallOutcomes :
          InterfaceCreate(key, attrs, nb)
    \/ EngineReturn

SpecTranslate == Init /\ [][NextTranslate]_vars

\* ------------------------------------- interfaces of an unresolvable device
\* a third set of runs: only Cable create, whose fallback lookup brings the
\* interface d3/e0 of the unknown device d3 into the Context, and Interface
\* create and update, the update also with the candidate a fetched interface
\* already records
DependencyAttrSets == {[mtu |-> "9000"], InterfaceDefaults}

NextDependency ==
    \/ \E key \in CableKeys, nb \in CallOutcomes : CableCreate(key, nb)
    \/ \E key \in IntfKeys, attrs \in DependencyAttrSets, nb \in CallOutcomes :
          InterfaceCreate(key, attrs, nb)
    \/ \E key \in IntfKeys, attrs \in DependencyAttrSets, nbget \in GetOutcomes,
          nb \in CallOutcomes :
          InterfaceUpdate(key, attrs, nbget, nb)
    \/ EngineReturn

SpecDependency == Init /\ [][NextDependency]_vars

\* ------------------------------------------------- concurrent Cable creates
\* Two threads run NetboxCable.create against one Context; the code takes no
\* lock. A thread can be preempted between any two accesses to the Context
\* or to the remote: the two Context lookups (lines 305-310), the remote
\* query of the fallback lookup and its add to the Context (lines 312-320),
\* the two marker reads (lines 325, 334), the remote create (lines 343-352)
\* and the two marker writes (lines 354, 355). Its local variables
\* interface_a and interface_z are references: to the entity the Context
\* holds (ref "ctx"), to an entity of its own that the Context does not hold
\* (ref "own", with the entity in obj), or None (ref "none").
NoRef == [ref |-> "none", obj |-> NoEntity]
CtxRef == [ref |-> "ctx", obj |-> NoEntity]

\* what the add of a fetched interface does when the Context already holds
\* one under that identity: it raises, or the thread keeps the entity it
\* fetched while the Context keeps its own
DuplicateAddOutcomes == {"ObjectAlreadyExists", "keep"}

InitConc ==
    /\ InitContext
    /\ \E k1 \in CableKeys, k2 \in CableKeys :
         thr = [t \in Threads |->
                  [NoThread EXCEPT !.pc = "get_a", !.key = IF t = 1 THEN k1 ELSE k2]]

ThreadDone(t, ret) == [thr EXCEPT ![t].pc = "done", ![t].ret = ret]

\* the key of endpoint a or z of the thread's cable
ThreadKey(t, side) == IF side = "a" THEN thr[t].key[1] ELSE thr[t].key[2]

\* the entity a local variable refers to
ThreadInterface(t, side) ==
    IF thr[t][side].ref = "ctx" THEN ctxInterface[ThreadKey(t, side)] ELSE thr[t][side].obj

\* lines 305-307
ThreadGetA(t) ==
    /\ thr[t].pc = "get_a"
    /\ thr' = [thr EXCEPT ![t].pc = "get_z",
                          ![t].a = IF Has(ctxInterface, ThreadKey(t, "a"))
                                   THEN CtxRef ELSE NoRef]
    /\ UNCHANGED <<ctxDevice, ctxSite, ctxInterface, ctxIP, ctxPrefix, ctxVlan, ctxCable,
                   nbInterface, nextId, import_vlans, last, prevUpdate, prevFailed>>

\* lines 308-323: the lookup of interface_z and the branch that follows it
ThreadGetZ(t) ==
    /\ thr[t].pc = "get_z"
    /\ LET z == IF Has(ctxInterface, ThreadKey(t, "z")) THEN CtxRef ELSE NoRef
       IN thr' = [thr EXCEPT ![t].z = z,
                             ![t].pc = IF thr[t].a.ref = "none" THEN "fetch_a"
                                       ELSE IF z.ref = "none" THEN "fetch_z"
                                       ELSE "guard_a"]
    /\ UNCHANGED <<ctxDevice, ctxSite, ctxInterface, ctxIP, ctxPrefix, ctxVlan, ctxCable,
                   nbInterface, nextId, import_vlans, last, prevUpdate, prevFailed>>

\* lines 313 and 318: the remote query of the fallback lookup returns; when
\* the remote has no such interface the lookup yields nothing and create
\* returns False at line 323
ThreadFetch(t, side) ==
    /\ thr[t].pc = "fetch_" \o side
    /\ thr' = IF Has(nbInterface, ThreadKey(t, side))
              THEN [thr EXCEPT ![t].pc = "add_" \o side,
                               ![t][side] = [ref |-> "own",
                                             obj |-> FetchedInterface(ThreadKey(t, side))]]
              ELSE ThreadDone(t, "False")
    /\ UNCHANGED <<ctxDevice, ctxSite, ctxInterface, ctxIP, ctxPrefix, ctxVlan, ctxCable,
                   nbInterface, nextId, import_vlans, last, prevUpdate, prevFailed>>

\* the fallback lookup adds the fetched interface to the Context and returns
\* it; then lines 322-323
ThreadAdd(t, side, dup) ==
    /\ thr[t].pc = "add_" \o side
    /\ LET k == ThreadKey(t, side)
           other == IF side = "a" THEN "z" ELSE "a"
           next == IF thr[t][other].ref = "none" THEN "done" ELSE "guard_a"
           ret == IF thr[t][other].ref = "none" THEN "False" ELSE "none"
       IN IF ~Has(ctxInterface, k)
          THEN /\ ctxInterface' = Put(ctxInterface, k, thr[t][side].obj)
               /\ thr' = [thr EXCEPT ![t][side] = CtxRef, ![t].pc = next, ![t].ret = ret]
          ELSE /\ UNCHANGED ctxInterface
               /\ thr' = IF dup = "keep"
                         THEN [thr EXCEPT ![t].pc = next, ![t].ret = ret]
                         ELSE [ThreadDone(t, "raise") EXCEPT ![t].raised = dup]
    /\ UNCHANGED <<ctxDevice, ctxSite, ctxIP, ctxPrefix, ctxVlan, ctxCable, nbInterface,
                   nextId, import_vlans, last, prevUpdate, prevFailed>>

\* lines 325-332
ThreadGuardA(t) ==
    /\ thr[t].pc = "guard_a"
    /\ thr' = IF Truthy(ThreadInterface(t, "a").connected_endpoint_type)
              THEN ThreadDone(t, "False")
              ELSE [thr EXCEPT ![t].pc = "guard_z"]
    /\ UNCHANGED <<ctxDevice, ctxSite, ctxInterface, ctxIP, ctxPrefix, ctxVlan, ctxCable,
                   nbInterface, nextId, import_vlans, last, prevUpdate, prevFailed>>

\* lines 334-341
ThreadGuardZ(t) ==
    /\ thr[t].pc = "guard_z"
    /\ thr' = IF Truthy(ThreadInterface(t, "z").connected_endpoint_type)
              THEN ThreadDone(t, "False")
              ELSE [thr EXCEPT ![t].pc = "create"]
    /\ UNCHANGED <<ctxDevice, ctxSite, ctxInterface, ctxIP, ctxPrefix, ctxVlan, ctxCable,
                   nbInterface, nextId, import_vlans, last, prevUpdate, prevFailed>>

\* lines 343-352
ThreadRemoteCreate(t, nb) ==
    /\ thr[t].pc = "create"
    /\ LET result == CableCreateResult(nb)
       IN IF result = "item"
          THEN /\ thr' = [thr EXCEPT ![t].pc = "mark_a", ![t].called = TRUE,
                                     ![t].newid = nextId]
               /\ nextId' = nextId + 1
          ELSE /\ thr' = [ThreadDone(t, result) EXCEPT
                             ![t].called = TRUE,
                             ![t].raised = IF result = "raise" THEN nb ELSE "none"]
               /\ UNCHANGED nextId
    /\ UNCHANGED <<ctxDevice, ctxSite, ctxInterface, ctxIP, ctxPrefix, ctxVlan, ctxCable,
                   nbInterface, import_vlans, last, prevUpdate, prevFailed>>

\* the assignment of line 354 or 355: to the entity of the Context, or to
\* the thread's own entity
ThreadMarked(t, side) ==
    IF thr[t][side].ref = "ctx"
    THEN /\ ctxInterface' = [ctxInterface EXCEPT
                ![ThreadKey(t, side)].connected_endpoint_type = "dcim.interface"]
         /\ thr' = IF side = "a" THEN [thr EXCEPT ![t].pc = "mark_z"]
                   ELSE ThreadDone(t, "item")
    ELSE /\ UNCHANGED ctxInterface
         /\ thr' = [IF side = "a" THEN [thr EXCEPT ![t].pc = "mark_z"]
                    ELSE ThreadDone(t, "item")
                    EXCEPT ![t][side].obj.connected_endpoint_type = "dcim.interface"]

\* line 354
ThreadMarkA(t) ==
    /\ thr[t].pc = "mark_a"
    /\ ThreadMarked(t, "a")
    /\ UNCHANGED <<ctxDevice, ctxSite, ctxIP, ctxPrefix, ctxVlan, ctxCable, nbInterface,
                   nextId, import_vlans, last, prevUpdate, prevFailed>>

\* lines 355-361: the second mark and the return of the Cable; the Cable is
\* not added to the Context here, that is the caller's step
ThreadMarkZ(t) ==
    /\ thr[t].pc = "mark_z"
    /\ ThreadMarked(t, "z")
    /\ UNCHANGED <<ctxDevice, ctxSite, ctxIP, ctxPrefix, ctxVlan, ctxCable, nbInterface,
                   nextId, import_vlans, last, prevUpdate, prevFailed>>

NextConc ==
    \/ \E t \in Threads : ThreadGetA(t)
    \/ \E t \in Threads : ThreadGetZ(t)
    \/ \E t \in Threads, side \in {"a", "z"} : ThreadFetch(t, side)
    \/ \E t \in Threads, side \in {"a", "z"}, dup \in DuplicateAddOutcomes :
          ThreadAdd(t, side, dup)
    \/ \E t \in Threads : ThreadGuardA(t)
    \/ \E t \in Threads : ThreadGuardZ(t)
    \/ \E t \in Threads, nb \in CallOutcomes : ThreadRemoteCreate(t, nb)
    \/ \E t \in Threads : ThreadMarkA(t)
    \/ \E t \in Threads : ThreadMarkZ(t)

SpecConc == InitConc /\ [][NextConc]_vars

\* ================================================================== claims
Issued(name) == \E i \in 1..Len(last.calls) : last.calls[i][1] = name

IssuedWith(name, outcome) == \E i \in 1..Len(last.calls) : last.calls[i] = Call(name, outcome)

CreateOps == {"Interface.create", "IPAddress.create", "Prefix.create", "Vlan.create",
              "Cable.create"}

DeleteOps == {"Interface.delete", "IPAddress.delete", "Cable.delete"}

\* ---- C1
\* the Interface delete that just returned was invoked on an interface whose
\* ips contain the designated primary IP of its device
C1_CarriesPrimary ==
    /\ last.op = "Interface.delete"
    /\ Has(ctxDevice, last.key[1])
    /\ ctxDevice[last.key[1]].primary_ip # None
    /\ ctxDevice[last.key[1]].primary_ip \in last.self.ips

\* C1: deleting an Interface whose recorded IP list contains the primary IP of
\* its device issues no remote call and returns the same interface, every field
\* (remote id, attributes, marker) unchanged, whatever preceded the delete.
C1_InterfaceDeleteProtected ==
    C1_CarriesPrimary =>
        /\ last.calls = <<>>
        /\ last.raised = "none"
        /\ last.ret = "self"
        /\ last.retval = last.self
        /\ Has(ctxInterface, last.key)
        /\ ctxInterface[last.key] = last.self

\* a refused delete of the management interface d1/e0 after an update and a
\* cable create changed its attributes and its marker
C1_Witness ==
    /\ C1_CarriesPrimary
    /\ last.ret = "self"
    /\ last.self.attrs["mtu"] = "9000"
    /\ last.self.connected_endpoint_type = "dcim.interface"

\* ---- C2
\* the IPAddress delete that just returned was invoked on the primary IP of
\* its owning device
C2_IsPrimary ==
    /\ last.op = "IPAddress.delete"
    /\ last.self.device_name # None
    /\ Has(ctxDevice, last.self.device_name)
    /\ ctxDevice[last.self.device_name].primary_ip = last.key

\* C2: deleting an IPAddress that is the primary IP of its owning device issues
\* no remote call and returns the entity unchanged; a remote delete of an IP
\* address is issued only when the address is not the primary IP of its device.
C2_IPAddressDeleteProtected ==
    /\ C2_IsPrimary =>
          /\ last.calls = <<>>
          /\ last.raised = "none"
          /\ last.ret = "self"
          /\ last.retval = last.self
          /\ Has(ctxIP, last.key)
          /\ ctxIP[last.key] = last.self
    /\ (last.op = "IPAddress.delete" /\ Issued("ipaddr.delete")) => ~C2_IsPrimary

\* a refused delete of 10.0.0.1, the primary IP of d1
C2_Witness == C2_IsPrimary /\ last.ret = "self" /\ last.key = "10.0.0.1"

\* ---- C3
\* C3: an Interface update applied twice in a row with the same attribute set
\* pushes to the remote once: the second call issues no remote call and returns
\* the entity unchanged.
C3_UpdateTwiceOneCall ==
    (last.op = "Interface.update" /\ prevUpdate = <<last.key, last.attrs>>) =>
        /\ last.calls = <<>>
        /\ last.ret = "self"
        /\ last.retval = last.self

\* ---- C4
\* C4: a Vlan update whose candidate attribute set equals the recorded one
\* issues no remote call and returns the entity unchanged.
C4_VlanUpdateNoop ==
    (last.op = "Vlan.update" /\ last.attrs = VlanAttrs(last.self)) =>
        /\ last.calls = <<>>
        /\ last.ret = "self"
        /\ last.retval = last.self

\* ---- C5
C5_Marked(interface) ==
    interface # NoEntity /\ interface.connected_endpoint_type \notin {None, ""}

\* the Cable create that just returned found a resolved endpoint connected
C5_EndpointConnected ==
    /\ last.op = "Cable.create"
    /\ C5_Marked(last.self.interface_a) \/ C5_Marked(last.self.interface_z)

\* C5: a Cable create that finds the marker of a resolved endpoint (A or Z)
\* non-empty returns the failure sentinel, issues no remote create call and
\* raises nothing.
C5_CableCreateGuard ==
    C5_EndpointConnected =>
        /\ last.ret = "False"
        /\ last.raised = "none"
        /\ ~Issued("dcim.cables.create")
        /\ last.newid = NoRemoteId
        /\ last.retval = NoEntity

\* a refused create where only endpoint Z is connected
C5_Witness ==
    /\ C5_EndpointConnected
    /\ last.self.interface_a # NoEntity
    /\ ~C5_Marked(last.self.interface_a)
    /\ last.ret = "False"

\* ---- C6
\* C6: of two concurrent Cable creates for the same two interfaces at most one
\* issues the remote create call, and they do not both return a Cable.
C6_AtMostOneRemoteCreate ==
    \A t \in Threads, u \in Threads :
        (t # u /\ thr[t].key = thr[u].key) =>
            /\ ~(thr[t].called /\ thr[u].called)
            /\ ~(thr[t].ret = "item" /\ thr[u].ret = "item")

\* ---- C7
\* C7: Cable create leaves an endpoint unresolved only when that endpoint is
\* neither in the Context nor found by the fallback lookup; with both endpoints
\* absent from the Context and both present remotely it resolves both.
C7_FallbackResolvesBoth ==
    (last.op = "Cable.create"
     /\ (last.self.interface_a = NoEntity \/ last.self.interface_z = NoEntity)) =>
        \E k \in {last.key[1], last.key[2]} :
            k \notin last.self.in_context /\ ~Has(nbInterface, k)

\* ---- C8
C8_HasRemoteId(store) == \A k \in DOMAIN store : store[k].remote_id # NoRemoteId

\* C8: a create returns an entity exactly when its remote create call returned
\* an id, and that entity carries this id; a create that is skipped or raises
\* yields no entity and no id; no entity of the Context is without a remote id.
C8_RemoteIdIffCreated ==
    /\ last.ret = "item" =>
          /\ last.op \in CreateOps
          /\ \E i \in 1..Len(last.calls) : last.calls[i][2] = "ok"
          /\ last.newid # NoRemoteId
          /\ last.retval.remote_id = last.newid
    /\ (last.op \in CreateOps /\ last.ret # "item") =>
          /\ last.retval = NoEntity
          /\ last.newid = NoRemoteId
    /\ C8_HasRemoteId(ctxInterface)
    /\ C8_HasRemoteId(ctxIP)
    /\ C8_HasRemoteId(ctxPrefix)
    /\ C8_HasRemoteId(ctxVlan)
    /\ C8_HasRemoteId(ctxCable)

\* a Cable create returned a Cable carrying the id of its remote create, and
\* the diff engine has added an earlier created entity to the Context
C8_Witness ==
    /\ last.op = "Cable.create"
    /\ last.ret = "item"
    /\ last.retval.remote_id = last.newid
    /\ last.newid # NoRemoteId

\* ---- C9
\* C9: a Vlan create whose remote create is rejected with RequestError returns
\* the failure sentinel, raises nothing and yields no Vlan and no id; no other
\* outcome of the remote call becomes a skip.
C9_VlanCreateConflict ==
    /\ (last.op = "Vlan.create" /\ IssuedWith("ipam.vlans.create", "RequestError")) =>
          /\ last.ret = "False"
          /\ last.raised = "none"
          /\ last.retval = NoEntity
          /\ last.newid = NoRemoteId
    /\ (last.op = "Vlan.create" /\ last.ret = "False") =>
          IssuedWith("ipam.vlans.create", "RequestError")
    /\ (last.op = "Vlan.create" /\ IssuedWith("ipam.vlans.create", "ConnectionError")) =>
          last.ret = "raise" /\ last.raised = "ConnectionError"
    /\ (last.op = "Vlan.create" /\ IssuedWith("ipam.vlans.create", "ok")) =>
          last.ret = "item"

\* a Vlan create rejected by the remote returned the failure sentinel
C9_Witness ==
    /\ last.op = "Vlan.create"
    /\ IssuedWith("ipam.vlans.create", "RequestError")
    /\ last.ret = "False"

\* ---- C10
\* C10: every delete that returns (Interface, IPAddress, Cable) returns the
\* local entity it was invoked on.
C10_DeleteReturnsSelf ==
    (last.op \in DeleteOps /\ last.raised = "none") =>
        last.ret = "self" /\ last.retval = last.self

\* ---- C11
\* C11: with VLAN import enabled, Interface attributes with
\* switchport_mode = "ACCESS" and a non-empty access_vlan translate to an
\* untagged_vlan parameter that is the remote id of that Vlan in the Context;
\* with switchport_mode = "ACCESS" and access_vlan absent, untagged_vlan is
\* present and null.
C11_UntaggedVlan ==
    (/\ last.op = "Interface.create"
     /\ import_vlans # "no"
     /\ Has(ctxDevice, last.key[1])
     /\ HasKey(last.attrs, "switchport_mode")
     /\ last.attrs["switchport_mode"] = "ACCESS") =>
        /\ (HasKey(last.attrs, "access_vlan") /\ Truthy(last.attrs["access_vlan"])) =>
              /\ HasKey(last.params, "untagged_vlan")
              /\ last.params["untagged_vlan"] = convert_vlan_to_nid(last.attrs["access_vlan"])
        /\ ~HasKey(last.attrs, "access_vlan") =>
              /\ HasKey(last.params, "untagged_vlan")
              /\ last.params["untagged_vlan"] = NoRemoteId

\* ---- C12
\* the name a Vlan gets when none is supplied, per vid
C12_DefaultName == (1 :> "vlan-1") @@ (10 :> "vlan-10") @@ (20 :> "vlan-20")

\* C12: the remote create of a Vlan carries name = "vlan-<vid>" whenever the
\* attributes have no name or a falsy one, and the supplied name unchanged
\* whenever a non-empty name is given.
C12_VlanNameDefault ==
    (last.op = "Vlan.create" /\ Issued("ipam.vlans.create")) =>
        /\ HasKey(last.params, "name")
        /\ last.params["vid"] = last.key[2]
        /\ IF HasKey(last.attrs, "name") /\ last.attrs["name"] \notin {None, ""}
           THEN last.params["name"] = last.attrs["name"]
           ELSE last.params["name"] = C12_DefaultName[last.key[2]]

\* a Vlan create for vid 20 without a name sent name = "vlan-20"
C12_Witness ==
    /\ last.op = "Vlan.create"
    /\ IssuedWith("ipam.vlans.create", "ok")
    /\ last.key[2] = 20
    /\ last.attrs = EmptyDict
    /\ last.params["name"] = "vlan-20"

\* ---- C13
C13_IsTrue(attrs, flag) == HasKey(attrs, flag) /\ attrs[flag] = PyTrue

\* C13: the translated type is "lag" for every attribute set with is_lag true,
\* whatever is_virtual is; with is_lag false or absent it is "virtual" when
\* is_virtual is true and "other" otherwise.
C13_TypePriority ==
    (last.op = "Interface.create" /\ Has(ctxDevice, last.key[1])
     /\ last.attrs \in TypeAttrSets) =>
        /\ HasKey(last.params, "type")
        /\ C13_IsTrue(last.attrs, "is_lag") => last.params["type"] = "lag"
        /\ (~C13_IsTrue(last.attrs, "is_lag") /\ C13_IsTrue(last.attrs, "is_virtual")) =>
              last.params["type"] = "virtual"
        /\ (~C13_IsTrue(last.attrs, "is_lag") /\ ~C13_IsTrue(last.attrs, "is_virtual")) =>
              last.params["type"] = "other"

\* an interface that is both a lag and virtual was translated to type "lag"
C13_Witness ==
    /\ last.op = "Interface.create"
    /\ C13_IsTrue(last.attrs, "is_lag")
    /\ C13_IsTrue(last.attrs, "is_virtual")
    /\ HasKey(last.params, "type")
    /\ last.params["type"] = "lag"

\* ---- C14
\* the create that just returned was called for an identity the Context held
C14_AlreadyInContext ==
    \/ last.op = "Interface.create" /\ Has(ctxInterface, last.key)
    \/ last.op = "IPAddress.create" /\ Has(ctxIP, last.key)
    \/ last.op = "Prefix.create" /\ Has(ctxPrefix, last.key)
    \/ last.op = "Vlan.create" /\ Has(ctxVlan, last.key)
    \/ last.op = "Cable.create" /\ Has(ctxCable, last.key)

\* C14: a create for an identity that already exists in the Context produces
\* no second remote object: no remote create call of it succeeds.
C14_NoSecondRemoteObject ==
    C14_AlreadyInContext =>
        /\ last.newid = NoRemoteId
        /\ ~\E i \in 1..Len(last.calls) :
              last.calls[i] \in {Call("dcim.interfaces.create", "ok"),
                                 Call("ipam.ip_addresses.create", "ok"),
                                 Call("ipam.prefixes.create", "ok"),
                                 Call("ipam.vlans.create", "ok"),
                                 Call("dcim.cables.create", "ok")}

\* ---- C15
C15_MarkedIn(ctx, k) == Has(ctx, k) /\ ctx[k].connected_endpoint_type = "dcim.interface"

\* a Cable create that returned a Cable left both its endpoints marked
C15_MarkersSet ==
    (last.op = "Cable.create" /\ last.ret = "item") =>
        C15_MarkedIn(ctxInterface, last.key[1]) /\ C15_MarkedIn(ctxInterface, last.key[2])

\* a Cable create one of whose endpoints the Context held marked was refused
C15_SharedEndpointMarked ==
    /\ last.op = "Cable.create"
    /\ \/ last.key[1] \in last.self.in_context /\ C5_Marked(last.self.interface_a)
       \/ last.key[2] \in last.self.in_context /\ C5_Marked(last.self.interface_z)

C15_LaterRefused ==
    C15_SharedEndpointMarked => last.ret = "False" /\ ~Issued("dcim.cables.create")

\* a marked interface of the Context stays marked in every step; it leaves the
\* Context only when an Interface delete of it has gone through
C15_MarkersStay ==
    \A k \in DOMAIN ctxInterface :
        C15_MarkedIn(ctxInterface, k) =>
            \/ C15_MarkedIn(ctxInterface', k)
            \/ last.op = "Interface.delete" /\ last.key = k /\ ~Has(ctxInterface', k)

\* C15: after a Cable create succeeds both its endpoint interfaces are marked,
\* the marks stay for the rest of the run, and every later Cable create that
\* shares a marked endpoint, one resolved through the fallback lookup
\* included, returns the failure sentinel without a remote create call.
C15_MarkedAfterCreate ==
    /\ []C15_MarkersSet
    /\ []C15_LaterRefused
    /\ [][C15_MarkersStay]_vars

\* the create of d1/e0 - d3/e0 fetched d3/e0 through the fallback lookup and
\* marked it; the later create of d2/e0 - d3/e0 was refused
C15_Witness ==
    /\ C15_SharedEndpointMarked
    /\ last.key = <<<<"d2", "e0">>, <<"d3", "e0">>>>
    /\ Has(ctxCable, <<<<"d1", "e0">>, <<"d3", "e0">>>>)
    /\ ~C5_Marked(last.self.interface_a)
    /\ last.ret = "False"
    /\ ~Issued("dcim.cables.create")

\* ---- C16
\* the Interface update that just returned had its remote get or update raise
C16_RemoteRaised ==
    /\ last.op = "Interface.update"
    /\ last.calls # <<>>
    /\ last.raised # "none"

\* the Interface update that just returned repeats, with the same candidate,
\* the update before it, whose remote call had raised
C16_AgainAfterFailure ==
    /\ last.op = "Interface.update"
    /\ prevFailed # <<>>
    /\ prevFailed[1] = "Interface.update"
    /\ prevFailed[2] = last.key
    /\ prevFailed[3] = last.attrs

\* C16: when the remote get or update of an Interface update raises, the error
\* reaches the caller, each remote call was made at most once, and the
\* recorded attributes of the entity are unchanged; the same update made
\* again issues the remote calls again; the candidate is committed only by an
\* update whose remote update returned.
C16_CommitAfterRemote ==
    /\ C16_RemoteRaised =>
          /\ last.ret = "raise"
          /\ last.retval = NoEntity
          /\ last.calls \in {<<Call("dcim.interfaces.get", "ConnectionError")>>,
                             <<Call("dcim.interfaces.get", "None")>>,
                             <<Call("dcim.interfaces.get", "ok"),
                               Call("intf.update", "RequestError")>>,
                             <<Call("dcim.interfaces.get", "ok"),
                               Call("intf.update", "ConnectionError")>>}
          /\ Has(ctxInterface, last.key)
          /\ ctxInterface[last.key] = last.self
    /\ C16_AgainAfterFailure =>
          /\ Issued("dcim.interfaces.get")
          /\ IssuedWith("dcim.interfaces.get", "ok") => Issued("intf.update")
    /\ (last.op = "Interface.update" /\ Has(ctxInterface, last.key)
        /\ ctxInterface[last.key] # last.self) =>
          /\ IssuedWith("intf.update", "ok")
          /\ last.raised = "none"

\* an update that had failed on the remote was made again and pushed
C16_Witness ==
    /\ C16_AgainAfterFailure
    /\ IssuedWith("intf.update", "ok")
    /\ last.ret = "self"
    /\ ctxInterface[last.key].attrs["mtu"] = "9000"
    /\ last.self.attrs["mtu"] = "1500"

\* ---- C17
\* the Cable create that just returned had its remote create rejected
C17_Rejected ==
    last.op = "Cable.create" /\ IssuedWith("dcim.cables.create", "RequestError")

C17_Unmarked(k) ==
    Has(ctxInterface, k) /\ ctxInterface[k].connected_endpoint_type = None

\* a rejected Cable create returns the failure sentinel, raises nothing,
\* yields no Cable and no id and leaves both endpoints unmarked
C17_RejectedLeavesUnmarked ==
    C17_Rejected =>
        /\ last.ret = "False"
        /\ last.raised = "none"
        /\ last.retval = NoEntity
        /\ last.newid = NoRemoteId
        /\ C17_Unmarked(last.key[1])
        /\ C17_Unmarked(last.key[2])

\* the Cable create that just returned repeats the create before it, which
\* the remote had rejected
C17_AgainAfterRejection ==
    /\ last.op = "Cable.create"
    /\ prevFailed # <<>>
    /\ prevFailed[1] = "Cable.create"
    /\ prevFailed[2] = last.key

\* C17: a Cable create whose remote create is rejected with RequestError
\* returns the failure sentinel without raising, records no Cable and no id
\* and leaves both endpoint markers unset, so that the same create made again
\* passes the marker guard and issues the remote create.
C17_CableCreateRejected ==
    /\ []C17_RejectedLeavesUnmarked
    /\ [](C17_AgainAfterRejection => Issued("dcim.cables.create"))
    /\ [][C17_Rejected => ctxCable' = ctxCable]_vars

\* a Cable create was rejected, made again and then returned a Cable
C17_Witness ==
    /\ C17_AgainAfterRejection
    /\ IssuedWith("dcim.cables.create", "ok")
    /\ last.ret = "item"

\* ---- C18
\* the Interface create or update that just returned was called for an
\* interface whose device the Context does not hold
C18_DeviceUnresolved ==
    /\ last.op \in {"Interface.create", "Interface.update"}
    /\ ~Has(ctxDevice, last.key[1])

\* C18 as stated: an Interface create or update for an interface whose device
\* is not in the Context raises to the caller before any remote call and
\* records no remote id.
C18_DeviceUnresolvedFails ==
    C18_DeviceUnresolved =>
        /\ last.ret = "raise"
        /\ last.raised # "none"
        /\ last.calls = <<>>
        /\ last.newid = NoRemoteId

\* C18 amended: an Interface create, and an Interface update whose candidate
\* differs from the recorded attributes, for an interface whose device is not
\* in the Context raises to the caller before any remote call and records no
\* remote id nor any attribute; an update whose candidate equals the recorded
\* attributes returns the entity unchanged, again without a remote call.
C18_DeviceUnresolvedFailsUnlessNoop ==
    /\ (C18_DeviceUnresolved
        /\ (last.op = "Interface.update" => last.attrs # get_attrs(last.self))) =>
          /\ last.ret = "raise"
          /\ last.raised = "AttributeError"
          /\ last.retval = NoEntity
          /\ last.calls = <<>>
          /\ last.newid = NoRemoteId
          /\ last.op = "Interface.update" => ctxInterface[last.key] = last.self
    /\ (C18_DeviceUnresolved /\ last.op = "Interface.update"
        /\ last.attrs = get_attrs(last.self)) =>
          /\ last.ret = "self"
          /\ last.retval = last.self
          /\ last.raised = "none"
          /\ last.calls = <<>>

\* an update of d3/e0, fetched by a Cable create, raised before any remote call
C18_Witness ==
    /\ C18_DeviceUnresolved
    /\ last.op = "Interface.update"
    /\ last.attrs # get_attrs(last.self)
    /\ last.ret = "raise"
    /\ last.calls = <<>>

\* ---- C19
\* a Cable delete makes its remote calls whatever the state of the Context
C19_DeleteProceeds ==
    last.op = "Cable.delete" =>
        /\ Issued("dcim.cables.get")
        /\ IssuedWith("dcim.cables.get", "ok") => Issued("cable.delete")
        /\ (IssuedWith("cable.delete", "ok") => last.raised = "none")

\* the Cable create that just returned found both its endpoints marked while
\* the Context holds no Cable between them
C19_CreateAfterDelete ==
    /\ last.op = "Cable.create"
    /\ ~Has(ctxCable, last.key)
    /\ C5_Marked(last.self.interface_a)
    /\ C5_Marked(last.self.interface_z)

\* C19: Cable delete issues its remote delete without any protective check
\* and changes no interface of the Context, neither when it runs nor when the
\* Cable is removed from the Context: the markers of both endpoints stay set,
\* and a Cable create on the same endpoints after the delete is refused by the
\* marker guard without a remote create call.
C19_CableDeleteKeepsMarkers ==
    /\ []C19_DeleteProceeds
    /\ [](C19_CreateAfterDelete => last.ret = "False" /\ ~Issued("dcim.cables.create"))
    /\ [][(last.op = "Cable.delete" \/ last'.op = "Cable.delete") =>
             ctxInterface' = ctxInterface]_vars

\* a Cable was created and deleted, the Context holds no Cable any more, and
\* the create on the same two endpoints was refused
C19_Witness ==
    /\ C19_CreateAfterDelete
    /\ ctxCable = EmptyDict
    /\ nextId > 4
    /\ last.ret = "False"
    /\ ~Issued("dcim.cables.create")

====
